---- MODULE Spec2Model ----
(***************************************************************************)
(* ID100 utility, application layer (src/src/app.c).                       *)
(*                                                                         *)
(* Every catalog operation is a blocking round trip through                *)
(* AppSendAndReceive: an optional pre-send transform, one                  *)
(* LinkSendCommandAndBuffer, one LinkReceiveCommandAndBuffer, the tag and  *)
(* length checks, then the operation's post-receive transform and echo     *)
(* check.  The link layer and the device are the environment.              *)
(*                                                                         *)
(* Memory is modelled as bytes: a uint16_t field is loaded from and stored *)
(* to two bytes in the host's byte order, the device writes its 16-bit     *)
(* fields big-endian.  Floats are modelled as IEEE-754 classes: finite     *)
(* values (in whole ppm), the two infinities and NaN.                       *)
(***************************************************************************)
EXTENDS Integers, Sequences, FiniteSets, TLC

VARIABLES
  littleEndian, \* host byte order: __BYTE_ORDER__ != __ORDER_BIG_ENDIAN__
  pc,           \* "idle" | "sent" | "received" | "exited"
  command,      \* tag of the operation in progress / last performed
  sendBuf,      \* request payload bytes handed to LinkSendCommandAndBuffer
  sendPpm,      \* the float handed to the link by AppSetRtcCalibration
  recvBufLen,   \* expected response length of the operation
  recvCmd,      \* tag returned by LinkReceiveCommandAndBuffer
  recvLength,   \* length returned by LinkReceiveCommandAndBuffer
  recvBuf,      \* bytes the link wrote into the response buffer
  dev,          \* the field values the device encoded into its response
  reqPage,      \* page number the caller asked for (f, E, F)
  reqData,      \* caller's payload as passed in (set operations)
  reqPpm,       \* caller's ppm argument (C)
  pageNumber,   \* callee's local uint16_t copy (f: pageNumber, E: startPage)
  config,       \* caller's AppFlashClockConfigType record, as bytes in memory
  result,       \* what the operation handed back to the caller
  outcome,      \* [kind, tag, num]: none | ok | tag | length | echo
  respSwaps,    \* number of response fields swapped after the receive
  echoChecked,  \* whether the echoed page number was compared
  sends,        \* LinkSendCommandAndBuffer calls on the connection
  recvs,        \* LinkReceiveCommandAndBuffer calls on the connection
  ops,          \* catalog operations started
  num,          \* a uint16_t variable the swap macro is applied to
  orig,         \* the value num held before any application
  applied       \* number of applications of the macro to num

vars == <<littleEndian, pc, command, sendBuf, sendPpm, recvBufLen, recvCmd,
          recvLength, recvBuf, dev, reqPage, reqData, reqPpm, pageNumber,
          config, result, outcome, respSwaps, echoChecked, sends, recvs, ops,
          num, orig, applied>>

----------------------------------------------------------------------------
(* Bounds *)

\* catalog operations performed on one connection
MaxOps == 2
\* width in bytes given to the opaque records of app.h
OpaqueLen == 2
\* applications of the swap macro to one variable
MaxSwaps == 2

----------------------------------------------------------------------------
(* Integer and memory primitives *)

Min(a, b) == IF a < b THEN a ELSE b

RECURSIVE BitOr(_, _)
BitOr(a, b) ==
  IF a = 0 THEN b
  ELSE IF b = 0 THEN a
  ELSE (IF a % 2 = 1 \/ b % 2 = 1 THEN 1 ELSE 0) + 2 * BitOr(a \div 2, b \div 2)

\* assignment of an int expression to a uint16_t lvalue
ToUint16(x) == x % 65536

\* mutants of the macro: the high byte is lost / the macro is compiled out
APP_SWAP_ENDIAN_16_ShiftOnly(n) ==
  IF littleEndian THEN ToUint16(n * 256) ELSE n

APP_SWAP_ENDIAN_16_Nop(n) == n

\* (num) = ((num) << 8) | ((num) >> 8) on a uint16_t, or nothing on a
\* big-endian host
APP_SWAP_ENDIAN_16(n) ==
  IF littleEndian THEN ToUint16(BitOr(n * 256, n \div 256)) ELSE n

\* a uint16_t read from / laid out in memory in host byte order
Load16(b, i) ==
  IF littleEndian THEN b[i] + 256 * b[i + 1] ELSE 256 * b[i] + b[i + 1]

Store16(v) ==
  IF littleEndian THEN <<v % 256, v \div 256>> ELSE <<v \div 256, v % 256>>

\* the device's wire form of a 16-bit field: big-endian
WireEncode16(v) == <<v \div 256, v % 256>>

Rest(s, from) == SubSeq(s, from, Len(s))

----------------------------------------------------------------------------
(* IEEE-754 single precision, by class *)

Fin(n) == [k |-> "fin", v |-> n]
PInf == [k |-> "inf", v |-> 1]
NInf == [k |-> "inf", v |-> -1]
NaN == [k |-> "nan", v |-> 0]

\* an infinity orders beyond every finite value of the model
FOrd(x) == IF x.k = "inf" THEN x.v * 1000000 ELSE x.v
FGt(a, b) == a.k # "nan" /\ b.k # "nan" /\ FOrd(a) > FOrd(b)
FLt(a, b) == a.k # "nan" /\ b.k # "nan" /\ FOrd(a) < FOrd(b)
FLe(a, b) == a.k # "nan" /\ b.k # "nan" /\ FOrd(a) <= FOrd(b)
FNeg(a) == [k |-> a.k, v |-> 0 - a.v]

\* #define APP_PPM_LIMIT 189.0f
APP_PPM_LIMIT == 189

----------------------------------------------------------------------------
(* The catalog: tags, record sizes, inputs *)

Tags ==
  {"v", "t", "T", "A", "a", "X", "!", "D", "b", "B", "c", "C", "s", "S",
   "f", "E", "F", "r", "R"}

FlashTags == {"f", "E", "F"}

\* sizeof of the types of app.h; the opaque records get OpaqueLen bytes
Sizeof(type) ==
  CASE type = "AppVersionType" -> 6
    [] type = "uint16_t" -> 2
    [] type = "AppIntensityType" -> 1
    [] type = "AppRtcCalibrationValueType" -> 4
    [] type = "AppFlashConfigPageType" -> 2 + OpaqueLen
    [] type = "AppFlashClockConfigType" -> 2 + OpaqueLen
    [] OTHER -> OpaqueLen

\* contents of an opaque record
OpaquePayloads == [1..OpaqueLen -> {1, 2}]
IntensityValues == {<<0>>, <<7>>, <<255>>}

\* page numbers: 1280 = 0x0500 is 5 with its bytes exchanged
Pages == {0, 5, 7, 42, 1280, 4660, 65535}

\* version numbers the device may report
VersionValues == {0, 1, 2, 3, 256, 4660}

\* ppm arguments
PpmInputs ==
  {Fin(0), Fin(10), Fin(-10), Fin(189), Fin(-189), Fin(190), Fin(-190),
   Fin(250), Fin(-250), PInf, NInf, NaN}

NoOutcome == [kind |-> "none", tag |-> "", num |-> 0]
OkOutcome == [kind |-> "ok", tag |-> "", num |-> 0]

----------------------------------------------------------------------------
(* The environment: link layer and device *)

\* what the device puts into the response to a request, as field values
DeviceFields(cmd) ==
  CASE cmd = "v" ->
         {<<a, b, c>> : a \in VersionValues, b \in VersionValues,
                        c \in VersionValues}
    [] cmd = "f" -> {<<e>> \o d : e \in Pages, d \in OpaquePayloads}
    [] cmd \in {"E", "F"} -> {<<e>> : e \in Pages}
    [] cmd = "b" -> IntensityValues
    [] cmd \in {"t", "c", "s", "r"} -> OpaquePayloads
    [] OTHER -> {<<>>}

\* the bytes of that response: declared 16-bit fields big-endian
DeviceEncode(cmd, f) ==
  CASE cmd = "v" ->
         WireEncode16(f[1]) \o WireEncode16(f[2]) \o WireEncode16(f[3])
    [] cmd = "f" -> WireEncode16(f[1]) \o Rest(f, 2)
    [] cmd \in {"E", "F"} -> WireEncode16(f[1])
    [] OTHER -> f

\* tags the link may report: the one sent, or another one
RecvTags(cmd) == {cmd} \cup ({"v", "f", "R", "?"} \ {cmd})

\* lengths the link may report: the expected one, one less, one more
RecvLengths(len) == {len, len + 1} \cup (IF len > 0 THEN {len - 1} ELSE {})

\* ExitWithError (utils.h): print the message and terminate the process
ExitWithError(kind, tag, n) ==
  /\ pc' = "exited"
  /\ outcome' = [kind |-> kind, tag |-> tag, num |-> n]

----------------------------------------------------------------------------
(* AppSendAndReceive *)

\* mutants: two sends per request / no tag check / length checked first /
\* only a short response rejected
AppSendAndReceive_SendTwice(cmd, buf, ppm, rlen) ==
  /\ command' = cmd
  /\ sendBuf' = buf
  /\ sendPpm' = ppm
  /\ recvBufLen' = rlen
  /\ sends' = sends + 2
  /\ pc' = "sent"

AppSendAndReceive_NoTagCheck(cmd, rCmd, rLength, rBufLen) ==
  IF rLength # rBufLen
  THEN [kind |-> "length", tag |-> "", num |-> rLength]
  ELSE OkOutcome

AppSendAndReceive_LengthFirst(cmd, rCmd, rLength, rBufLen) ==
  IF rLength # rBufLen
  THEN [kind |-> "length", tag |-> "", num |-> rLength]
  ELSE IF rCmd # cmd
  THEN [kind |-> "tag", tag |-> rCmd, num |-> 0]
  ELSE OkOutcome

AppSendAndReceive_LongOk(cmd, rCmd, rLength, rBufLen) ==
  IF rCmd # cmd
  THEN [kind |-> "tag", tag |-> rCmd, num |-> 0]
  ELSE IF rLength < rBufLen
  THEN [kind |-> "length", tag |-> "", num |-> rLength]
  ELSE OkOutcome

\* LinkSendCommandAndBuffer(command, sendBuf, sendBufLen): the send half
AppSendAndReceive_Send(cmd, buf, ppm, rlen) ==
  /\ command' = cmd
  /\ sendBuf' = buf
  /\ sendPpm' = ppm
  /\ recvBufLen' = rlen
  /\ sends' = sends + 1
  /\ pc' = "sent"

\* the checks on what the receive returned: command first, then length
AppSendAndReceive(cmd, rCmd, rLength, rBufLen) ==
  IF rCmd # cmd
  THEN [kind |-> "tag", tag |-> rCmd, num |-> 0]
  ELSE IF rLength # rBufLen
  THEN [kind |-> "length", tag |-> "", num |-> rLength]
  ELSE OkOutcome

\* recvLength = LinkReceiveCommandAndBuffer(&recvCmd, recvBuf, recvBufLen)
LinkReceiveCommandAndBuffer ==
  /\ pc = "sent"
  /\ \E t \in RecvTags(command), f \in DeviceFields(command),
        n \in RecvLengths(recvBufLen) :
       /\ recvCmd' = t
       /\ recvLength' = n
       /\ dev' = f
       /\ recvBuf' = SubSeq(DeviceEncode(command, f), 1, Min(n, recvBufLen))
  /\ recvs' = recvs + 1
  /\ pc' = "received"
  /\ UNCHANGED <<littleEndian, command, sendBuf, sendPpm, recvBufLen, reqPage,
                 reqData, reqPpm, pageNumber, config, result, outcome,
                 respSwaps, echoChecked, sends, ops, num, orig, applied>>

----------------------------------------------------------------------------
(* Entering an operation *)

\* a call of a catalog function by the (single-threaded) caller
StartOp ==
  /\ pc = "idle"
  /\ ops < MaxOps
  /\ ops' = ops + 1
  /\ result' = <<>>
  /\ outcome' = NoOutcome
  /\ respSwaps' = 0
  /\ echoChecked' = FALSE
  /\ recvCmd' = ""
  /\ recvLength' = 0
  /\ recvBuf' = <<>>
  /\ dev' = <<>>
  /\ UNCHANGED <<littleEndian, recvs, num, orig, applied>>

\* the arguments of the call and the callee's copies of them
Args(page, data, ppm, local, cfg) ==
  /\ reqPage' = page
  /\ reqData' = data
  /\ reqPpm' = ppm
  /\ pageNumber' = local
  /\ config' = cfg

NoArgs == Args(0, <<>>, Fin(0), 0, <<>>)

\* an operation with no request payload and a response of rlen bytes
Get(cmd, rlen) ==
  StartOp /\ NoArgs /\ AppSendAndReceive_Send(cmd, <<>>, Fin(0), rlen)

\* an operation sending the caller's record verbatim, with no response payload
Set(cmd, data) ==
  /\ StartOp
  /\ Args(0, data, Fin(0), 0, <<>>)
  /\ AppSendAndReceive_Send(cmd, data, Fin(0), 0)

----------------------------------------------------------------------------
(* The catalog operations, up to the send *)

AppGetVersion == Get("v", Sizeof("AppVersionType"))

AppGetDateTime == Get("t", Sizeof("AppDateTimeType"))

AppSetDateTime == \E d \in OpaquePayloads : Set("T", d)

AppSetNormalMode == Get("A", 0)

AppSetPreviewMode == Get("a", 0)

AppFactoryReset == Get("X", 0)

AppActivateBootloader == Get("!", 0)

AppSetPreviewMatrix == \E d \in OpaquePayloads : Set("D", d)

AppGetIntensity == Get("b", Sizeof("AppIntensityType"))

AppSetIntensity == \E d \in IntensityValues : Set("B", d)

AppGetLastCalibration == Get("c", Sizeof("AppLastCalibrationType"))

\* mutants of the limit: the lower bound is not enforced / limit off by one
AppSetRtcCalibration_Limit_NoLower(p) ==
  IF FGt(p, Fin(APP_PPM_LIMIT)) THEN Fin(APP_PPM_LIMIT) ELSE p

\* the PPM limit of AppSetRtcCalibration
AppSetRtcCalibration_Limit(p) ==
  IF FGt(p, Fin(APP_PPM_LIMIT)) THEN Fin(APP_PPM_LIMIT)
  ELSE IF FLt(p, FNeg(Fin(APP_PPM_LIMIT))) THEN FNeg(Fin(APP_PPM_LIMIT))
  ELSE p

AppSetRtcCalibration ==
  \E p \in PpmInputs :
    /\ StartOp
    /\ Args(0, <<>>, p, 0, <<>>)
    /\ AppSendAndReceive_Send("C", <<>>, AppSetRtcCalibration_Limit(p), 0)

AppGetStandby == Get("s", Sizeof("AppStandbyType"))

AppSetStandby == \E d \in OpaquePayloads : Set("S", d)

AppGetFlashConfigPage ==
  \E p \in Pages :
    LET swapped == APP_SWAP_ENDIAN_16(p)
    IN /\ StartOp
       /\ Args(p, <<>>, Fin(0), swapped, <<>>)
       /\ AppSendAndReceive_Send("f", Store16(swapped), Fin(0),
                                 Sizeof("AppFlashConfigPageType"))

AppEraseFlashConfigSector ==
  \E p \in Pages :
    LET swapped == APP_SWAP_ENDIAN_16(p)
    IN /\ StartOp
       /\ Args(p, <<>>, Fin(0), swapped, <<>>)
       /\ AppSendAndReceive_Send("E", Store16(swapped), Fin(0),
                                 Sizeof("uint16_t"))

\* mutants: the record's page number is not swapped / not swapped back
AppSetFlashClockConfig_SwapField_Nop(cfg) == cfg

\* APP_SWAP_ENDIAN_16(config->pageNumber) on the record in memory
AppSetFlashClockConfig_SwapField(cfg) ==
  Store16(APP_SWAP_ENDIAN_16(Load16(cfg, 1))) \o Rest(cfg, 3)

\* the swap back after the round trip
AppSetFlashClockConfig_Restore(cfg) ==
  Store16(APP_SWAP_ENDIAN_16(Load16(cfg, 1))) \o Rest(cfg, 3)

AppSetFlashClockConfig ==
  \E p \in Pages, d \in OpaquePayloads :
    LET cfg == AppSetFlashClockConfig_SwapField(Store16(p) \o d)
    IN /\ StartOp
       /\ Args(p, d, Fin(0), 0, cfg)
       /\ AppSendAndReceive_Send("F", cfg, Fin(0), Sizeof("uint16_t"))

AppGetAppointments == Get("r", Sizeof("AppointmentsConfigType"))

AppSetAppointments == \E d \in OpaquePayloads : Set("R", d)

----------------------------------------------------------------------------
(* The catalog operations, after AppSendAndReceive has returned *)

Post(res, swaps, echo, bad, n, local, cfg) ==
  [result |-> res, swaps |-> swaps, echo |-> echo, bad |-> bad, num |-> n,
   pageNumber |-> local, config |-> cfg]

\* mutants of the tails
AppGetVersion_Post_MinorUnswapped ==
  Post(<<APP_SWAP_ENDIAN_16(Load16(recvBuf, 1)),
         Load16(recvBuf, 3),
         APP_SWAP_ENDIAN_16(Load16(recvBuf, 5))>>,
       2, FALSE, FALSE, 0, pageNumber, config)

Passthrough_Post_Reversed ==
  Post([i \in 1..Len(recvBuf) |-> recvBuf[Len(recvBuf) + 1 - i]],
       0, FALSE, FALSE, 0, pageNumber, config)

AppGetFlashConfigPage_Post_RawEcho ==
  LET pn == APP_SWAP_ENDIAN_16(pageNumber)
      cpn == Load16(recvBuf, 1)
  IN Post(<<cpn>> \o Rest(recvBuf, 3), 0, TRUE, cpn # pn, cpn, pn, config)

AppEraseFlashConfigSector_Post_NoCheck ==
  LET erased == APP_SWAP_ENDIAN_16(Load16(recvBuf, 1))
      sp == APP_SWAP_ENDIAN_16(pageNumber)
  IN Post(<<>>, 1, FALSE, FALSE, erased, sp, config)

AppSetFlashClockConfig_Post_NoRestore ==
  LET pn == APP_SWAP_ENDIAN_16(Load16(recvBuf, 1))
  IN Post(<<>>, 1, TRUE, pn # Load16(config, 1), pn, pageNumber, config)

\* AppGetVersion: the three fields swapped in place
AppGetVersion_Post ==
  Post(<<APP_SWAP_ENDIAN_16(Load16(recvBuf, 1)),
         APP_SWAP_ENDIAN_16(Load16(recvBuf, 3)),
         APP_SWAP_ENDIAN_16(Load16(recvBuf, 5))>>,
       3, FALSE, FALSE, 0, pageNumber, config)

\* the get operations that hand the buffer to the caller as received
\* (t, b, c, s, r) and the set operations, which hand back nothing
Passthrough_Post == Post(recvBuf, 0, FALSE, FALSE, 0, pageNumber, config)

\* AppGetFlashConfigPage: swap the local back, swap config->pageNumber,
\* compare
AppGetFlashConfigPage_Post ==
  LET pn == APP_SWAP_ENDIAN_16(pageNumber)
      cpn == APP_SWAP_ENDIAN_16(Load16(recvBuf, 1))
  IN Post(<<cpn>> \o Rest(recvBuf, 3), 1, TRUE, cpn # pn, cpn, pn, config)

\* AppEraseFlashConfigSector: swap pageErased, swap startPage back, compare
AppEraseFlashConfigSector_Post ==
  LET erased == APP_SWAP_ENDIAN_16(Load16(recvBuf, 1))
      sp == APP_SWAP_ENDIAN_16(pageNumber)
  IN Post(<<>>, 1, TRUE, erased # sp, erased, sp, config)

\* AppSetFlashClockConfig: swap config->pageNumber back, swap the echoed
\* page number, compare
AppSetFlashClockConfig_Post ==
  LET cfg == AppSetFlashClockConfig_Restore(config)
      pn == APP_SWAP_ENDIAN_16(Load16(recvBuf, 1))
  IN Post(<<>>, 1, TRUE, pn # Load16(cfg, 1), pn, pageNumber, cfg)

PostReceive ==
  CASE command = "v" -> AppGetVersion_Post
    [] command = "f" -> AppGetFlashConfigPage_Post
    [] command = "E" -> AppEraseFlashConfigSector_Post
    [] command = "F" -> AppSetFlashClockConfig_Post
    [] OTHER -> Passthrough_Post

\* the receive has returned: AppSendAndReceive's checks, then the tail of
\* the operation that called it
Finish ==
  /\ pc = "received"
  /\ LET chk == AppSendAndReceive(command, recvCmd, recvLength, recvBufLen)
     IN IF chk.kind # "ok"
        THEN /\ ExitWithError(chk.kind, chk.tag, chk.num)
             /\ UNCHANGED <<result, respSwaps, echoChecked, pageNumber,
                            config>>
        ELSE LET p == PostReceive
             IN /\ respSwaps' = p.swaps
                /\ echoChecked' = p.echo
                /\ pageNumber' = p.pageNumber
                /\ config' = p.config
                /\ IF p.echo /\ p.bad
                   THEN /\ ExitWithError("echo", "", p.num)
                        /\ UNCHANGED result
                   ELSE /\ pc' = "idle"
                        /\ outcome' = OkOutcome
                        /\ result' = p.result
  /\ UNCHANGED <<littleEndian, command, sendBuf, sendPpm, recvBufLen, recvCmd,
                 recvLength, recvBuf, dev, reqPage, reqData, reqPpm, sends,
                 recvs, ops, num, orig, applied>>

----------------------------------------------------------------------------
(* The application on an open connection *)

Quiet ==
  /\ pc = "idle"
  /\ command = ""
  /\ sendBuf = <<>>
  /\ sendPpm = Fin(0)
  /\ recvBufLen = 0
  /\ recvCmd = ""
  /\ recvLength = 0
  /\ recvBuf = <<>>
  /\ dev = <<>>
  /\ reqPage = 0
  /\ reqData = <<>>
  /\ reqPpm = Fin(0)
  /\ pageNumber = 0
  /\ config = <<>>
  /\ result = <<>>
  /\ outcome = NoOutcome
  /\ respSwaps = 0
  /\ echoChecked = FALSE
  /\ sends = 0
  /\ recvs = 0
  /\ ops = 0

Init ==
  /\ littleEndian \in BOOLEAN
  /\ Quiet
  /\ num = 0
  /\ orig = 0
  /\ applied = 0

Next ==
  \/ AppGetVersion
  \/ AppGetDateTime
  \/ AppSetDateTime
  \/ AppSetNormalMode
  \/ AppSetPreviewMode
  \/ AppFactoryReset
  \/ AppActivateBootloader
  \/ AppSetPreviewMatrix
  \/ AppGetIntensity
  \/ AppSetIntensity
  \/ AppGetLastCalibration
  \/ AppSetRtcCalibration
  \/ AppGetStandby
  \/ AppSetStandby
  \/ AppGetFlashConfigPage
  \/ AppEraseFlashConfigSector
  \/ AppSetFlashClockConfig
  \/ AppGetAppointments
  \/ AppSetAppointments
  \/ LinkReceiveCommandAndBuffer
  \/ Finish

Spec == Init /\ [][Next]_vars

----------------------------------------------------------------------------
(* The swap macro on its own, over every 16-bit value *)

SwapInit ==
  /\ littleEndian \in BOOLEAN
  /\ Quiet
  /\ num \in 0..65535
  /\ orig = num
  /\ applied = 0

\* APP_SWAP_ENDIAN_16(num) on a uint16_t variable
ApplySwap ==
  /\ applied < MaxSwaps
  /\ num' = APP_SWAP_ENDIAN_16(num)
  /\ applied' = applied + 1
  /\ UNCHANGED <<littleEndian, pc, command, sendBuf, sendPpm, recvBufLen,
                 recvCmd, recvLength, recvBuf, dev, reqPage, reqData, reqPpm,
                 pageNumber, config, result, outcome, respSwaps, echoChecked,
                 sends, recvs, ops, orig>>

SwapNext == ApplySwap

SwapSpec == SwapInit /\ [][SwapNext]_vars

----------------------------------------------------------------------------
(* Properties *)

\* the operation in progress has ended: it returned or the process exited
Ended == outcome.kind # "none"

\* a 16-bit field of the response, decoded from wire (big-endian) order
WireDecode16(b, i) == 256 * b[i] + b[i + 1]

\* what the caller is handed of the device's fields: E and F return nothing
Delivered(cmd, f) == IF cmd \in {"E", "F"} THEN <<>> ELSE f

InLimit(x) == FLe(Fin(0 - 189), x) /\ FLe(x, Fin(189))

\* C1: when the receive returns a tag other than the one sent, the operation
\* ends in the fatal tag-mismatch error naming the received tag, and nothing
\* of the response is processed: no field is swapped, no echo is compared,
\* the operation does not return.
C1_TagMismatchIsFatal ==
  (Ended /\ recvCmd # command) =>
    /\ pc = "exited"
    /\ outcome = [kind |-> "tag", tag |-> recvCmd, num |-> 0]
    /\ respSwaps = 0
    /\ ~echoChecked
    /\ result = <<>>

C1_Witness ==
  /\ command = "f"
  /\ recvCmd = "v"
  /\ recvLength = recvBufLen
  /\ pc = "exited"
  /\ outcome.kind = "tag"

\* C2: when the receive returns the sent tag with a length other than the
\* expected one, shorter or longer, the operation ends in the fatal
\* length-mismatch error reporting the received length and never returns.
C2_LengthMismatchIsFatal ==
  (Ended /\ recvCmd = command /\ recvLength # recvBufLen) =>
    /\ pc = "exited"
    /\ outcome = [kind |-> "length", tag |-> "", num |-> recvLength]

C2_Witness ==
  /\ command = "v"
  /\ recvCmd = "v"
  /\ recvLength = 5
  /\ pc = "exited"
  /\ outcome.kind = "length"
  /\ outcome.num = 5

\* C3: with tag and length accepted, flash page get and flash sector erase
\* return normally exactly when the echoed page number decoded from wire
\* order equals the requested one; otherwise they end in the fatal
\* echo-mismatch error identifying the decoded echoed value.
C3_EchoDecidesFlashGetAndErase ==
  (Ended /\ command \in {"f", "E"} /\ recvCmd = command
     /\ recvLength = recvBufLen) =>
    LET e == WireDecode16(recvBuf, 1)
    IN /\ (e = reqPage) => (pc = "idle" /\ outcome.kind = "ok")
       /\ (e # reqPage) =>
            /\ pc = "exited"
            /\ outcome = [kind |-> "echo", tag |-> "", num |-> e]

C3_Witness ==
  /\ littleEndian
  /\ command = "f"
  /\ reqPage = 5
  /\ recvCmd = "f"
  /\ recvLength = recvBufLen
  /\ WireDecode16(recvBuf, 1) = 7
  /\ pc = "exited"
  /\ outcome.kind = "echo"
  /\ outcome.num = 7

\* C4: flash clock-config set puts the record's page number on the wire
\* big-endian with the rest of the record as it is, and when the call
\* returns successfully the caller's record holds the original host-order
\* page number and its other fields unchanged, the echoed page number
\* having been found equal to that restored value.
C4_ClockConfigRestored ==
  (command = "F") =>
    /\ SubSeq(sendBuf, 1, 2) = WireEncode16(reqPage)
    /\ Rest(sendBuf, 3) = reqData
    /\ (outcome.kind = "ok") =>
         /\ Load16(config, 1) = reqPage
         /\ Rest(config, 3) = reqData
         /\ WireDecode16(recvBuf, 1) = reqPage

C4_Witness ==
  /\ littleEndian
  /\ command = "F"
  /\ reqPage = 42
  /\ sendBuf[1] = 0
  /\ sendBuf[2] = 42
  /\ pc = "idle"
  /\ outcome.kind = "ok"
  /\ Load16(config, 1) = 42

\* C5 as stated: with the sent tag and the expected length received, every
\* operation returns without error and hands the caller the fields the
\* device encoded.
C5_AsStated ==
  (Ended /\ recvCmd = command /\ recvLength = recvBufLen) =>
    /\ pc = "idle"
    /\ outcome.kind = "ok"
    /\ result = Delivered(command, dev)

\* C5 (amended): with the sent tag and the expected length received and,
\* for the flash operations f, E and F, the requested page number echoed,
\* every operation returns without error and hands the caller the fields
\* the device encoded: 16-bit fields decoded from big-endian, every other
\* payload byte for byte.
C5_HappyPath ==
  (Ended /\ recvCmd = command /\ recvLength = recvBufLen
     /\ (command \in FlashTags => dev[1] = reqPage)) =>
    /\ pc = "idle"
    /\ outcome.kind = "ok"
    /\ result = Delivered(command, dev)

C5_Witness ==
  /\ littleEndian
  /\ command = "f"
  /\ reqPage = 4660
  /\ dev = <<4660, 1, 2>>
  /\ pc = "idle"
  /\ outcome.kind = "ok"
  /\ result = <<4660, 1, 2>>

\* C6: on a little-endian host the version decoded from response bytes
\* b0..b5 is major = 256*b0 + b1, minor = 256*b2 + b3, revision =
\* 256*b4 + b5, each a 16-bit value.
C6_VersionDecode ==
  (littleEndian /\ command = "v" /\ outcome.kind = "ok") =>
    /\ Len(recvBuf) = 6
    /\ result = <<256 * recvBuf[1] + recvBuf[2],
                  256 * recvBuf[3] + recvBuf[4],
                  256 * recvBuf[5] + recvBuf[6]>>
    /\ \A i \in 1..3 : result[i] \in 0..65535

C6_Witness ==
  /\ littleEndian
  /\ command = "v"
  /\ outcome.kind = "ok"
  /\ recvBuf = <<0, 1, 0, 2, 0, 3>>
  /\ result = <<1, 2, 3>>

\* C7: for every ppm argument the value handed to the transport by RTC
\* calibration set lies in [-189.0, +189.0]; it is the argument when that
\* is in range, +189.0 when the argument is above and -189.0 when below.
C7_SentPpmWithinLimit ==
  (command = "C") =>
    /\ InLimit(sendPpm)
    /\ InLimit(reqPpm) => sendPpm = reqPpm
    /\ FGt(reqPpm, Fin(189)) => sendPpm = Fin(189)
    /\ FLt(reqPpm, Fin(0 - 189)) => sendPpm = Fin(0 - 189)

\* C8: two applications of the swap to a uint16_t variable restore it; one
\* application exchanges its high and low bytes on a little-endian host and
\* changes nothing on a big-endian host.
C8_SwapSelfInverse ==
  /\ num \in 0..65535
  /\ (applied = 2) => num = orig
  /\ (applied = 1 /\ littleEndian) =>
       num = 256 * (orig % 256) + (orig \div 256)
  /\ (applied = 1 /\ ~littleEndian) => num = orig

C8_Witness ==
  /\ littleEndian
  /\ orig = 4660
  /\ applied = 2
  /\ num = 4660

\* C9: every operation makes exactly one send and then exactly one receive;
\* a request is in flight only between the two, the receive has completed
\* when the operation returns or fails, and no operation sends twice.
C9_OneRoundTripPerOperation ==
  /\ sends = ops
  /\ (pc = "sent") => (recvs = sends - 1)
  /\ (pc # "sent") => (recvs = sends)
  /\ Ended => (recvs = ops /\ pc \in {"idle", "exited"})

C9_Witness ==
  /\ ops = 2
  /\ sends = 2
  /\ recvs = 2
  /\ pc = "idle"
  /\ outcome.kind = "ok"

\* C10: the tag is checked first, then the length, then the echoed page
\* number: a wrong tag is reported as a tag mismatch whatever the length,
\* a length mismatch only under the right tag, an echo mismatch only for a
\* flash operation whose tag and length were accepted, and the echo is not
\* compared after a tag or length failure.
C10_ValidationOrder ==
  Ended =>
    /\ (recvCmd # command) => outcome.kind = "tag"
    /\ (recvCmd = command /\ recvLength # recvBufLen) =>
         outcome.kind = "length"
    /\ (outcome.kind = "echo") =>
         /\ command \in FlashTags
         /\ recvCmd = command
         /\ recvLength = recvBufLen
    /\ echoChecked => (recvCmd = command /\ recvLength = recvBufLen)

C10_Witness ==
  /\ command = "F"
  /\ recvCmd # command
  /\ recvLength # recvBufLen
  /\ pc = "exited"
  /\ outcome.kind = "tag"
  /\ ~echoChecked

====
